---- MODULE Spec2Model ----
(***************************************************************************)
(* MunkiServerUploader (src/MunkiServerUploader.py): one run of main().     *)
(*                                                                         *)
(* The run is sequential.  Its state is the processor's env dictionary,    *)
(* the files on disk, the lines given to self.output, the requests sent to *)
(* the registry and to the chat API, and the exception (if any) that left  *)
(* main uncaught.  Everything outside the process (the disk, makepkginfo,  *)
(* the two curl responses, the chat API's result) is a nondeterministic    *)
(* input.                                                                  *)
(*                                                                         *)
(* Strings that the code only passes along are TLA+ strings; the pkginfo   *)
(* name and version, which the code rewrites character by character, are   *)
(* sequences of one-character strings.  A concatenation a + b + c is the   *)
(* tuple of its parts.  None is the string NoneVal; a key absent from a    *)
(* dictionary is absent from the DOMAIN of the function modelling it.      *)
(***************************************************************************)
EXTENDS Integers, Sequences, FiniteSets, TLC

(* Bounds on the lengths of the pkginfo name and version strings. *)
MaxNameLen == 2
MaxVersionLen == 1

VARIABLES
    env,          \* self.env: the keys main reads
    disk,         \* path -> contents, for the files that exist
    pc,           \* the step of main about to run
    exc,          \* the exception that left main uncaught, or "none"
    output,       \* the lines passed to self.output, in order
    generated,    \* what makepkginfo wrote to the pkginfo file, if it ran
    app_name,     \* main's local app_name
    app_version,  \* main's local app_version
    queries,      \* existence requests issued (line 147), with the body read
    uploads,      \* upload requests issued (line 171), with the body read
    notifications,\* chat.postMessage calls issued (line 104), with the result
    response,     \* main's local response (the last parsed JSON body)
    steps         \* the steps of main that have run, in order

vars == <<env, disk, pc, exc, output, generated, app_name, app_version,
          queries, uploads, notifications, response, steps>>

(***************************************************************************)
(* Values.                                                                 *)
(***************************************************************************)
NoneVal == "<None>"
PackagePath == "/cache/App.pkg"
SuppliedPkginfoPath == "/cache/App.pkginfo"
ApiUrl == "https://munki.example"
ApiKey == "k3y"
Unit == "communication"
CurlPath == "/usr/bin/curl"

(* The characters the names of a run are drawn from: a letter, the literal *)
(* "-" of the class, and two characters outside the class, one of them the *)
(* replacement character itself.  Versions are drawn from a digit, the "." *)
(* of the class and a character outside it.                                *)
NameAlphabet == {"a", "-", " ", "_"}
VersionAlphabet == {"1", ".", " "}

StringsUpTo(n, alphabet) == UNION {[1..k -> alphabet] : k \in 0..n}

(* A file's contents, a process's standard output, or a JSON body:         *)
(* something no parser accepts, or a dictionary.                           *)
Garbage == [kind |-> "garbage"]
Dict(d) == [kind |-> "dict", dict |-> d]
EmptyDict == [k \in {} |-> ""]
PackageBytes == [kind |-> "package"]
NoPlist == [kind |-> "none"]

Has(v, key) == v.kind = "dict" /\ key \in DOMAIN v.dict

(* The pkginfo contents a run may meet: unparseable, a plist with neither  *)
(* key, or a plist with a name and a version, both strings.                *)
Pkginfos ==
    {Garbage, Dict(EmptyDict)}
      \cup {Dict([name |-> n, version |-> v]) :
              n \in StringsUpTo(MaxNameLen, NameAlphabet),
              v \in StringsUpTo(MaxVersionLen, VersionAlphabet)}

(* The bodies the existence request may return. *)
ExistsResponses ==
    {Garbage, Dict(EmptyDict), Dict([exists |-> TRUE]), Dict([exists |-> FALSE])}

(* The bodies the upload request may return. *)
UploadResponses ==
    {Garbage, Dict(EmptyDict),
     Dict([type |-> "success", message |-> "ok", edit_url |-> "http://x"]),
     Dict([type |-> "success", message |-> "ok"]),
     Dict([type |-> "success", edit_url |-> "http://x"]),
     Dict([type |-> "error", message |-> "bad"]),
     Dict([type |-> "error"])}

(* The results chat.postMessage may return. *)
SlackResults == {[ok |-> TRUE, error |-> ""], [ok |-> FALSE, error |-> "invalid_auth"]}

(***************************************************************************)
(* re.sub('[^a-zA-Z0-9.-]+', '_', s), lines 97-98.                        *)
(***************************************************************************)
Lower == {"a","b","c","d","e","f","g","h","i","j","k","l","m",
          "n","o","p","q","r","s","t","u","v","w","x","y","z"}
Upper == {"A","B","C","D","E","F","G","H","I","J","K","L","M",
          "N","O","P","Q","R","S","T","U","V","W","X","Y","Z"}
Digit == {"0","1","2","3","4","5","6","7","8","9"}

(* c matches the negated class [^a-zA-Z0-9.-]. *)
Matches(c) == c \notin (Lower \cup Upper \cup Digit \cup {".", "-"})

(* The rest of s after the longest prefix of matching characters (the      *)
(* greedy +).                                                              *)
RECURSIVE SkipRun(_)
SkipRun(s) ==
    IF s # <<>> /\ Matches(Head(s)) THEN SkipRun(Tail(s)) ELSE s

(* Left to right: every maximal run of matching characters becomes repl,   *)
(* every other character is copied.                                        *)
RECURSIVE ReSub(_, _)
ReSub(repl, s) ==
    IF s = <<>> THEN <<>>
    ELSE IF Matches(Head(s)) THEN repl \o ReSub(repl, SkipRun(Tail(s)))
    ELSE <<Head(s)>> \o ReSub(repl, Tail(s))

(* Mutants of Sanitize: the pattern without its +, and a replacement of    *)
(* two characters for each matching character.                             *)
RECURSIVE SubEach(_, _)
SubEach(repl, s) ==
    IF s = <<>> THEN <<>>
    ELSE (IF Matches(Head(s)) THEN repl ELSE <<Head(s)>>) \o SubEach(repl, Tail(s))

SanitizePerChar(s) == SubEach(<<"_">>, s)
SanitizeDoubling(s) == SubEach(<<"_", "_">>, s)

Sanitize(s) == ReSub(<<"_">>, s)

(* Mutant of SanitizePlist: the version is left as makepkginfo wrote it.   *)
SanitizeNameOnly(plist) ==
    [plist EXCEPT !["name"] = Sanitize(@)]

(* Lines 97-98: both fields of the parsed plist are rewritten. *)
SanitizePlist(plist) ==
    [plist EXCEPT !["name"] = Sanitize(@), !["version"] = Sanitize(@)]

(***************************************************************************)
(* Helpers of main.                                                        *)
(***************************************************************************)
(* A line given to self.output: its literal text and, in order, the values *)
(* concatenated with it.                                                   *)
Line(text, args) == [text |-> text, args |-> args]
Say(lines) == output' = output \o lines

ConfigErrorLine ==
    Line("Unable to construct curl command.  Have you set the MUNKISERVER_API_URL, MUNKISERVER_API_KEY, and MUNKISERVER_UNIT environment variables?", <<>>)

(* Python truth of an env value: None and "" are false. *)
Truthy(v) == v # NoneVal /\ v # ""

(* os.path.exists *)
PathExists(path) == path \in DOMAIN disk

(* Mutants of CurlCommandFails: only the URL, or only the key, is looked   *)
(* at.                                                                     *)
UrlMissingOnly(e) == e["api_url"] = NoneVal
KeyMissingOnly(e) == e["api_key"] = NoneVal

(* The try blocks of lines 135-146 and 158-169: a concatenation of a str   *)
(* with None raises TypeError, which the bare except catches.              *)
CurlCommandFails(e) == e["api_url"] = NoneVal \/ e["api_key"] = NoneVal

(* Mutants of AlreadyInServer: the answer is ignored, or read the wrong    *)
(* way round.                                                              *)
NeverInServer(r) == FALSE
InvertedInServer(r) == ~r.dict["exists"]

(* Line 152: if response["exists"] *)
AlreadyInServer(r) == r.dict["exists"]

(* Mutant of UploadSucceeded: any response with a type counts. *)
AnyTypeSucceeded(r) == TRUE

(* Line 174: response["type"] == "success" *)
UploadSucceeded(r) == r.dict["type"] = "success"

(* Mutant of NotificationText: the message is sent in place of the URL. *)
NotificationTextOfMessage(r) ==
    <<"A new package has been uploaded to Staging.  Please check the settings, test it, and put it into production:  ",
      r.dict["message"]>>

(* Line 178: the text handed to send_slack_notification. *)
NotificationText(r) ==
    <<"A new package has been uploaded to Staging.  Please check the settings, test it, and put it into production:  ",
      r.dict["edit_url"]>>

(* Lines 136-142: the existence request. *)
ExistsRequest(e, name, version) ==
    [cmd |-> e["CURL_PATH"],
     header |-> <<"X-Api-Key: ", e["api_key"]>>,
     url |-> <<e["api_url"], "/", e["unit"], "/packages/", name, "/", version>>]

(* Lines 159-165: the upload request, with the two files curl reads. *)
UploadRequest(e, d) ==
    [cmd |-> e["CURL_PATH"],
     header |-> <<"X-Api-Key: ", e["api_key"]>>,
     url |-> <<e["api_url"], "/", e["unit"], "/packages">>,
     pkginfo_file |-> d[e["pkginfo_file"]],
     package_file |-> d[e["package_file"]]]

Step(name) == steps' = Append(steps, name)
Raise(name) == pc' = "End" /\ exc' = name
Return == pc' = "End" /\ exc' = exc
Goto(step) == pc' = step /\ exc' = exc

(***************************************************************************)
(* The state when main is entered.  Processor.process has applied the      *)
(* defaults of input_variables (lines 21-72), so package_file, api_url and *)
(* api_key are keys of env, possibly None; unit and CURL_PATH have string  *)
(* defaults; pkginfo_file has no default and pathname is no input          *)
(* variable, so either may be absent.  The disk holds the package and the  *)
(* caller's pkginfo file, or not.  The makepkginfo overrides (lines 81-87) *)
(* only change what the external tool prints, which is any of Pkginfos     *)
(* here, so they are no keys of the modelled env.  pathname is read only   *)
(* when package_file is false (line 112), so its values are told apart     *)
(* only there.                                                             *)
(***************************************************************************)
Init ==
    /\ \E package_file \in {NoneVal, PackagePath},
          pathname \in {"absent", NoneVal, PackagePath},
          pkginfo_file \in {"absent", SuppliedPkginfoPath},
          api_url \in {NoneVal, ApiUrl},
          api_key \in {NoneVal, ApiKey},
          package_on_disk \in BOOLEAN,
          pkginfo_on_disk \in {NoPlist} \cup Pkginfos :
         /\ pkginfo_file = "absent" => pkginfo_on_disk = NoPlist
         /\ package_file # NoneVal => pathname = PackagePath
         /\ env = [k \in ({"package_file", "api_url", "api_key", "unit", "CURL_PATH"}
                           \cup (IF pathname = "absent" THEN {} ELSE {"pathname"})
                           \cup (IF pkginfo_file = "absent" THEN {} ELSE {"pkginfo_file"}))
                     |-> CASE k = "package_file" -> package_file
                           [] k = "pathname" -> pathname
                           [] k = "pkginfo_file" -> pkginfo_file
                           [] k = "api_url" -> api_url
                           [] k = "api_key" -> api_key
                           [] k = "unit" -> Unit
                           [] k = "CURL_PATH" -> CurlPath]
         /\ disk = [p \in (IF package_on_disk THEN {PackagePath} ELSE {})
                             \cup (IF pkginfo_on_disk = NoPlist THEN {}
                                   ELSE {SuppliedPkginfoPath})
                      |-> IF p = PackagePath THEN PackageBytes ELSE pkginfo_on_disk]
    /\ pc = "LocateArtifact"
    /\ exc = "none"
    /\ output = <<>>
    /\ generated = NoPlist
    /\ app_name = <<>>
    /\ app_version = <<>>
    /\ queries = <<>>
    /\ uploads = <<>>
    /\ notifications = <<>>
    /\ response = NoPlist
    /\ steps = <<>>

(***************************************************************************)
(* Lines 111-121.                                                          *)
(***************************************************************************)
LocateArtifact ==
    /\ pc = "LocateArtifact"
    /\ Step("LocateArtifact")
    /\ UNCHANGED <<disk, generated, app_name, app_version, queries, uploads,
                   notifications, response>>
    /\ IF ~Truthy(env["package_file"]) /\ "pathname" \notin DOMAIN env
       THEN Raise("KeyError") /\ UNCHANGED <<env, output>>
       ELSE IF ~Truthy(env["package_file"]) /\ ~Truthy(env["pathname"])
       THEN /\ Say(<<Line("No package file pathname provided", <<>>)>>)
            /\ Return /\ UNCHANGED env
       ELSE /\ env' = IF Truthy(env["package_file"]) THEN env
                      ELSE [env EXCEPT !["package_file"] = env["pathname"]]
            /\ IF ~PathExists(env'["package_file"])
               THEN /\ Say(<<Line("package_file path:  ", <<env'["package_file"]>>),
                             Line("Package file not found", <<>>)>>)
                    /\ Return
               ELSE Goto("EnsureMetadata") /\ UNCHANGED output

(***************************************************************************)
(* Lines 123-129.                                                          *)
(***************************************************************************)
EnsureMetadata ==
    /\ pc = "EnsureMetadata"
    /\ Step("EnsureMetadata")
    /\ UNCHANGED <<env, disk, generated, app_name, app_version, queries, uploads,
                   notifications, response>>
    /\ IF "pkginfo_file" \notin DOMAIN env
       THEN Goto("make_pkg_info") /\ UNCHANGED output
       ELSE IF ~PathExists(env["pkginfo_file"])
       THEN Say(<<Line("pkginfo file specified but not found", <<>>)>>) /\ Return
       ELSE Goto("ReadPkginfo") /\ UNCHANGED output

(***************************************************************************)
(* make_pkg_info, lines 79-99.  open(..., "wb") creates the file empty;    *)
(* subprocess.call raises OSError when makepkginfo cannot be started, and  *)
(* otherwise the tool's standard output, whatever it is, is the file.  The *)
(* tool's exit status p is not looked at.                                  *)
(***************************************************************************)
make_pkg_info ==
    /\ pc = "make_pkg_info"
    /\ Step("make_pkg_info")
    /\ UNCHANGED <<app_name, app_version, queries, uploads, notifications,
                   response>>
    /\ LET path == env["package_file"] \o ".plist"
           args == <<"/usr/local/munki/makepkginfo", env["package_file"]>>
       IN /\ env' = [k \in DOMAIN env \cup {"pkginfo_file"} |->
                       IF k = "pkginfo_file" THEN path ELSE env[k]]
          /\ Say(<<Line("No pkginfo file specified.  Creating ", <<path>>)>>)
          /\ \E started \in BOOLEAN, stdout \in Pkginfos :
               IF ~started
               THEN /\ stdout = Garbage
                    /\ generated' = [kind |-> "not started", args |-> args]
                    /\ disk' = [p \in DOMAIN disk \cup {path} |->
                                  IF p = path THEN Garbage ELSE disk[p]]
                    /\ Raise("OSError")
               ELSE /\ generated' = [kind |-> "ran", args |-> args, stdout |-> stdout]
                    /\ IF stdout.kind = "garbage"
                       THEN /\ disk' = [p \in DOMAIN disk \cup {path} |->
                                          IF p = path THEN stdout ELSE disk[p]]
                            /\ Raise("ExpatError")
                       ELSE IF ~(Has(stdout, "name") /\ Has(stdout, "version"))
                       THEN /\ disk' = [p \in DOMAIN disk \cup {path} |->
                                          IF p = path THEN stdout ELSE disk[p]]
                            /\ Raise("KeyError")
                       ELSE /\ disk' = [p \in DOMAIN disk \cup {path} |->
                                          IF p = path THEN Dict(SanitizePlist(stdout.dict))
                                          ELSE disk[p]]
                            /\ Goto("ReadPkginfo")

(***************************************************************************)
(* Lines 130-132.                                                          *)
(***************************************************************************)
ReadPkginfo ==
    /\ pc = "ReadPkginfo"
    /\ Step("ReadPkginfo")
    /\ UNCHANGED <<env, disk, output, generated, queries, uploads, notifications,
                   response>>
    /\ LET pkginfo == disk[env["pkginfo_file"]]
       IN IF pkginfo.kind = "garbage"
          THEN Raise("ExpatError") /\ UNCHANGED <<app_name, app_version>>
          ELSE IF ~Has(pkginfo, "name")
          THEN Raise("KeyError") /\ UNCHANGED <<app_name, app_version>>
          ELSE IF ~Has(pkginfo, "version")
          THEN Raise("KeyError") /\ app_name' = pkginfo.dict["name"]
                                 /\ UNCHANGED app_version
          ELSE /\ app_name' = pkginfo.dict["name"]
               /\ app_version' = pkginfo.dict["version"]
               /\ Goto("CheckExistence")

(***************************************************************************)
(* Lines 134-155.                                                          *)
(***************************************************************************)
CheckExistence ==
    /\ pc = "CheckExistence"
    /\ Step("CheckExistence")
    /\ UNCHANGED <<env, disk, generated, app_name, app_version, uploads,
                   notifications>>
    /\ IF CurlCommandFails(env)
       THEN Say(<<ConfigErrorLine>>) /\ Return /\ UNCHANGED <<queries, response>>
       ELSE \E body \in ExistsResponses :
              /\ queries' = Append(queries,
                     [request |-> ExistsRequest(env, app_name, app_version),
                      body |-> body])
              /\ IF body.kind = "garbage"
                 THEN Raise("ValueError") /\ UNCHANGED <<response, output>>
                 ELSE /\ response' = body
                      /\ IF ~Has(body, "exists")
                         THEN Raise("KeyError") /\ UNCHANGED output
                         ELSE IF AlreadyInServer(body)
                         THEN /\ Say(<<Line(" version / is already in munkiserver.  Quitting.",
                                            <<app_name, app_version>>)>>)
                              /\ Return
                         ELSE Goto("Upload") /\ UNCHANGED output

(***************************************************************************)
(* Lines 157-173.                                                          *)
(***************************************************************************)
Upload ==
    /\ pc = "Upload"
    /\ Step("Upload")
    /\ UNCHANGED <<env, disk, generated, app_name, app_version, queries,
                   notifications>>
    /\ IF CurlCommandFails(env)
       THEN Say(<<ConfigErrorLine>>) /\ Return /\ UNCHANGED <<uploads, response>>
       ELSE \E body \in UploadResponses :
              /\ uploads' = Append(uploads,
                     [request |-> UploadRequest(env, disk), body |-> body])
              /\ UNCHANGED output
              /\ IF body.kind = "garbage"
                 THEN Raise("ValueError") /\ UNCHANGED response
                 ELSE response' = body /\ Goto("Report")

(***************************************************************************)
(* Lines 174-183.                                                          *)
(***************************************************************************)
Report ==
    /\ pc = "Report"
    /\ Step("Report")
    /\ UNCHANGED <<env, disk, generated, app_name, app_version, queries, uploads,
                   notifications, response>>
    /\ IF ~Has(response, "type")
       THEN Raise("KeyError") /\ UNCHANGED output
       ELSE IF UploadSucceeded(response)
       THEN IF ~Has(response, "message")
            THEN Raise("KeyError") /\ UNCHANGED output
            ELSE IF ~Has(response, "edit_url")
            THEN /\ Say(<<Line("Upload succeeded: ", <<response.dict["message"]>>)>>)
                 /\ Raise("KeyError")
            ELSE /\ Say(<<Line("Upload succeeded: ", <<response.dict["message"]>>),
                          Line("URL: ", <<response.dict["edit_url"]>>)>>)
                 /\ Goto("send_slack_notification")
       ELSE IF ~Has(response, "message")
            THEN Raise("KeyError") /\ UNCHANGED output
            ELSE /\ Say(<<Line("Upload failed: ", <<response.dict["message"]>>)>>)
                 /\ Return

(***************************************************************************)
(* send_slack_notification, lines 101-107, called from line 177.  When the *)
(* result is not ok, line 107 adds a dict to a str: TypeError, raised      *)
(* before self.output is called.                                           *)
(***************************************************************************)
send_slack_notification ==
    /\ pc = "send_slack_notification"
    /\ Step("send_slack_notification")
    /\ UNCHANGED <<env, disk, generated, app_name, app_version, queries, uploads,
                   response, output>>
    /\ \E result \in SlackResults :
         /\ notifications' = Append(notifications,
                [method |-> "chat.postMessage", as_user |-> "false",
                 username |-> "jenkins", channel |-> "munkiserver-packages",
                 text |-> NotificationText(response), result |-> result])
         /\ IF ~result.ok THEN Raise("TypeError") ELSE Return

Next ==
    \/ LocateArtifact
    \/ EnsureMetadata
    \/ make_pkg_info
    \/ ReadPkginfo
    \/ CheckExistence
    \/ Upload
    \/ Report
    \/ send_slack_notification

Spec == Init /\ [][Next]_vars


(***************************************************************************)
(* What a state says about the run so far.                                 *)
(***************************************************************************)
Ended == pc = "End"
Ran(step) == \E i \in 1..Len(steps) : steps[i] = step
LastStep == steps[Len(steps)]
LastLine == output[Len(output)]
Said(text) == \E i \in 1..Len(output) : output[i].text = text
NoNetworkCall == queries = <<>> /\ uploads = <<>> /\ notifications = <<>>
ExistsAnswer(b) ==
    queries # <<>> /\ Has(queries[1].body, "exists")
      /\ queries[1].body.dict["exists"] = b
UploadAnswered == uploads # <<>> /\ uploads[1].body.kind = "dict"
UploadType(t) ==
    UploadAnswered /\ Has(uploads[1].body, "type")
      /\ uploads[1].body.dict["type"] = t
GeneratorRan == generated.kind = "ran"
GeneratorGavePlist ==
    GeneratorRan /\ Has(generated.stdout, "name") /\ Has(generated.stdout, "version")
MetadataGenerated == GeneratorGavePlist /\ pc # "make_pkg_info"
StoredPlist == disk[env["pkginfo_file"]].dict
ConfigMissing == env["api_url"] = NoneVal \/ env["api_key"] = NoneVal

(***************************************************************************)
(* C1.  When the existence query answers exists = true, the run ends there *)
(* with no exception, and no upload request and no notification is ever    *)
(* issued.                                                                 *)
(***************************************************************************)
C1_ExistsMeansNoUpload ==
    ExistsAnswer(TRUE) =>
        /\ Ended /\ exc = "none" /\ LastStep = "CheckExistence"
        /\ uploads = <<>> /\ notifications = <<>>

C1_Witness == ExistsAnswer(TRUE) /\ Ended /\ Len(queries) = 1

Contains(text, part) == \E i \in 1..Len(text) : text[i] = part

C2_Case ==
    /\ ExistsAnswer(FALSE)
    /\ UploadType("success")
    /\ Has(uploads[1].body, "message")
    /\ Has(uploads[1].body, "edit_url")

(***************************************************************************)
(* C2.  A run that ended after exists = false and an upload response of    *)
(* type success with a message and an edit_url has issued exactly one      *)
(* notification call, and its text contains that edit_url.                 *)
(***************************************************************************)
C2_OneNotificationWithEditUrl ==
    /\ Len(notifications) <= 1
    /\ (C2_Case /\ Ended) =>
          /\ Len(notifications) = 1
          /\ Contains(notifications[1].text, uploads[1].body.dict["edit_url"])

C2_Witness ==
    C2_Case /\ Ended /\ Len(notifications) = 1 /\ notifications[1].result.ok

(***************************************************************************)
(* C3.  As claimed: every run with api_url or api_key missing reports the  *)
(* configuration error and ends with no network call.                      *)
(***************************************************************************)
C3_Original ==
    (ConfigMissing /\ Ended) => (Said(ConfigErrorLine.text) /\ NoNetworkCall)

(* C3, amended.  With api_url or api_key missing no existence query, no    *)
(* upload request and no notification is ever issued; and a run that gets  *)
(* as far as the existence check (package found, metadata read) reports    *)
(* the configuration error there and ends without an exception.            *)
C3_NoNetworkWithoutConfig ==
    ConfigMissing =>
        /\ NoNetworkCall
        /\ Ran("CheckExistence") =>
              /\ Ended /\ exc = "none" /\ LastStep = "CheckExistence"
              /\ output # <<>> /\ LastLine = ConfigErrorLine

C3_Witness ==
    /\ env["api_url"] # NoneVal /\ env["api_key"] = NoneVal
    /\ Ran("CheckExistence") /\ Ended /\ Said(ConfigErrorLine.text)

C4_Case ==
    UploadAnswered /\ Has(uploads[1].body, "type") /\ ~UploadType("success")

(***************************************************************************)
(* C4.  When the upload response has a type other than "success", no       *)
(* notification is issued, and the run ends by printing "Upload failed: "  *)
(* with the message the response carries.                                  *)
(***************************************************************************)
C4_FailureReportedNoNotification ==
    C4_Case =>
        /\ notifications = <<>>
        /\ (Ended /\ Has(uploads[1].body, "message")) =>
              /\ exc = "none"
              /\ output # <<>>
              /\ LastLine = Line("Upload failed: ", <<uploads[1].body.dict["message"]>>)

C4_Witness ==
    /\ C4_Case /\ Ended /\ Has(uploads[1].body, "message")
    /\ Said("Upload failed: ")

ServerSafeChar(c) == c \in Lower \cup Upper \cup Digit \cup {".", "-", "_"}
ServerSafe(s) == \A i \in 1..Len(s) : ServerSafeChar(s[i])

TransmittedSafe ==
    /\ \A i \in 1..Len(queries) :
          ServerSafe(queries[i].request.url[5]) /\ ServerSafe(queries[i].request.url[7])
    /\ \A i \in 1..Len(uploads) :
          LET sent == uploads[i].request.pkginfo_file.dict
          IN ServerSafe(sent["name"]) /\ ServerSafe(sent["version"])

(***************************************************************************)
(* C5.  As claimed: every name and version sent to the registry (in the    *)
(* URL of the existence query, in the pkginfo file of the upload) consists *)
(* of characters of [A-Za-z0-9.-] and "_", whether the pkginfo file was    *)
(* generated or supplied.                                                  *)
(***************************************************************************)
C5_Original == TransmittedSafe

(* C5, amended.  When the pkginfo file was generated by make_pkg_info,     *)
(* every name and version sent to the registry consists of characters of   *)
(* [A-Za-z0-9.-] and "_"; a pkginfo file supplied by the caller is sent as *)
(* it is.                                                                  *)
C5_GeneratedIsSafe == GeneratorRan => TransmittedSafe

C5_Witness ==
    /\ GeneratorGavePlist
    /\ ~ServerSafe(generated.stdout.dict["name"])
    /\ ~ServerSafe(generated.stdout.dict["version"])
    /\ queries # <<>> /\ uploads # <<>>

(***************************************************************************)
(* C6.  As claimed: when the upload succeeded and chat.postMessage returns *)
(* ok = false, the failure is logged and main returns normally.            *)
(***************************************************************************)
C6_NotifierBestEffort ==
    (notifications # <<>> /\ ~notifications[1].result.ok /\ Ended) =>
        /\ exc = "none"
        /\ Said("Failed to send Slack notification: ")
        /\ Said("Upload succeeded: ")

(* The failures of the taxonomy, as the state shows them. *)
ArtifactMissing ==
    Ran("LocateArtifact") /\ Truthy(env["package_file"])
      /\ env["package_file"] \notin DOMAIN disk
SuppliedMetadataMissing ==
    Ran("EnsureMetadata") /\ "pkginfo_file" \in DOMAIN env
      /\ env["pkginfo_file"] \notin DOMAIN disk
ConfigurationFailure == Ran("CheckExistence") /\ ConfigMissing
GeneratorFailure == Ran("make_pkg_info") /\ ~GeneratorGavePlist
ExistsResponseBad == queries # <<>> /\ ~Has(queries[1].body, "exists")
UploadResponseBad ==
    uploads # <<>> /\
      \/ ~Has(uploads[1].body, "type")
      \/ ~Has(uploads[1].body, "message")
      \/ UploadType("success") /\ ~Has(uploads[1].body, "edit_url")
UploadRefused ==
    C4_Case /\ Has(uploads[1].body, "message") /\ Ran("Report")

(* The step a failure belongs to, and nothing after it has run. *)
StoppedAt(step) ==
    /\ Ended /\ LastStep = step
    /\ step \in {"LocateArtifact", "EnsureMetadata", "make_pkg_info"} => NoNetworkCall
    /\ step \in {"LocateArtifact", "EnsureMetadata"} => generated = NoPlist
    /\ step = "CheckExistence" => uploads = <<>> /\ notifications = <<>>
    /\ step \in {"Upload", "Report"} => notifications = <<>>

Diagnosed(text) == exc = "none" /\ output # <<>> /\ LastLine.text = text

(* C7, as claimed: each failure is diagnosed with a message, the run ends  *)
(* at the failing step and never in an uncaught exception.                 *)
C7_Original ==
    /\ ArtifactMissing => StoppedAt("LocateArtifact") /\ Diagnosed("Package file not found")
    /\ SuppliedMetadataMissing => StoppedAt("EnsureMetadata") /\ Diagnosed("pkginfo file specified but not found")
    /\ ConfigurationFailure => StoppedAt("CheckExistence") /\ Diagnosed(ConfigErrorLine.text)
    /\ GeneratorFailure => StoppedAt("make_pkg_info") /\ exc = "none"
    /\ ExistsResponseBad => StoppedAt("CheckExistence") /\ exc = "none"
    /\ (UploadResponseBad /\ Ended) =>
          (StoppedAt("Upload") \/ StoppedAt("Report")) /\ exc = "none"
    /\ UploadRefused => StoppedAt("Report") /\ Diagnosed("Upload failed: ")

(* C7, amended.  Missing configuration, a package or supplied metadata     *)
(* file missing on disk and an upload refused with a message are reported  *)
(* with a diagnostic line and end the run without an exception.  A         *)
(* generator that cannot be started or whose output is no plist with name  *)
(* and version, and a registry response that is no JSON or lacks a field   *)
(* main reads, end the run in an uncaught exception.  In every case the    *)
(* run ends at the failing step and no later step runs.                    *)
C7_FailuresStopTheRun ==
    /\ ArtifactMissing => StoppedAt("LocateArtifact") /\ Diagnosed("Package file not found")
    /\ SuppliedMetadataMissing => StoppedAt("EnsureMetadata") /\ Diagnosed("pkginfo file specified but not found")
    /\ ConfigurationFailure => StoppedAt("CheckExistence") /\ Diagnosed(ConfigErrorLine.text)
    /\ UploadRefused => StoppedAt("Report") /\ Diagnosed("Upload failed: ")
    /\ GeneratorFailure =>
          StoppedAt("make_pkg_info") /\ exc \in {"OSError", "ExpatError", "KeyError"}
    /\ ExistsResponseBad =>
          StoppedAt("CheckExistence") /\ exc \in {"ValueError", "KeyError"}
    /\ (UploadResponseBad /\ Ended) =>
          (StoppedAt("Upload") \/ StoppedAt("Report"))
            /\ exc \in {"ValueError", "KeyError"}

C7_Witness ==
    /\ Ended /\ ExistsResponseBad /\ queries[1].body = Garbage
    /\ exc = "ValueError" /\ LastStep = "CheckExistence" /\ uploads = <<>>

(***************************************************************************)
(* C8.  Sanitizing is idempotent: the name and version make_pkg_info wrote *)
(* back are left as they are by a second substitution.                     *)
(***************************************************************************)
C8_SanitizeIdempotent ==
    MetadataGenerated =>
        /\ Sanitize(StoredPlist["name"]) = StoredPlist["name"]
        /\ Sanitize(StoredPlist["version"]) = StoredPlist["version"]
        /\ Sanitize(Sanitize(generated.stdout.dict["name"]))
             = Sanitize(generated.stdout.dict["name"])

C8_Witness ==
    /\ MetadataGenerated
    /\ generated.stdout.dict["name"] = <<" ", "_">>
    /\ StoredPlist["name"] = <<"_">>

Outside(c) == c \notin Lower \cup Upper \cup Digit \cup {".", "-"}

PerCharacter(s) == [i \in 1..Len(s) |-> IF Outside(s[i]) THEN "_" ELSE s[i]]

(***************************************************************************)
(* C9.  As claimed: make_pkg_info replaces each character outside          *)
(* [A-Za-z0-9.-] by one "_" and keeps every other character in place, so   *)
(* the length is kept.                                                     *)
(***************************************************************************)
C9_Original ==
    MetadataGenerated =>
        /\ StoredPlist["name"] = PerCharacter(generated.stdout.dict["name"])
        /\ StoredPlist["version"] = PerCharacter(generated.stdout.dict["version"])
        /\ Len(StoredPlist["name"]) = Len(generated.stdout.dict["name"])

RunStarts(s) ==
    {i \in 1..Len(s) : ~Outside(s[i]) \/ i = 1 \/ ~Outside(s[i - 1])}

PerRun(s) ==
    [j \in 1..Cardinality(RunStarts(s)) |->
        LET i == CHOOSE k \in RunStarts(s) :
                     Cardinality({m \in RunStarts(s) : m <= k}) = j
        IN IF Outside(s[i]) THEN "_" ELSE s[i]]

AdjacentOutside(s) == \E i \in 1..(Len(s) - 1) : Outside(s[i]) /\ Outside(s[i + 1])

(* C9, amended.  Each maximal run of characters outside [A-Za-z0-9.-] is   *)
(* replaced by exactly one "_" and every other character is kept, in       *)
(* order; the result is never longer than the input, and as long as the    *)
(* input exactly when no two adjacent characters are outside the class.    *)
C9_OneUnderscorePerRun ==
    MetadataGenerated =>
        \A key \in {"name", "version"} :
            LET raw == generated.stdout.dict[key]
                kept == StoredPlist[key]
            IN /\ kept = PerRun(raw)
               /\ Len(kept) <= Len(raw)
               /\ (Len(kept) = Len(raw)) <=> ~AdjacentOutside(raw)

C9_Witness ==
    /\ MetadataGenerated
    /\ generated.stdout.dict["name"] = <<" ", " ">>
    /\ StoredPlist["name"] = <<"_">>

StepOrder ==
    <<"LocateArtifact", "EnsureMetadata", "make_pkg_info", "ReadPkginfo",
      "CheckExistence", "Upload", "Report", "send_slack_notification">>

Rank(step) == CHOOSE i \in 1..Len(StepOrder) : StepOrder[i] = step

(***************************************************************************)
(* C10.  The steps run in the order of main, each at most once; the        *)
(* generator runs only when no pkginfo file was supplied and the package   *)
(* is on disk; there is at most one upload, and only after an existence    *)
(* query answered exists = false; a notification only after an upload      *)
(* answered success.                                                       *)
(***************************************************************************)
C10_StepsInOrder ==
    /\ \A i \in 1..Len(steps) : \E k \in 1..Len(StepOrder) : StepOrder[k] = steps[i]
    /\ \A i, j \in 1..Len(steps) : i < j => Rank(steps[i]) < Rank(steps[j])
    /\ steps # <<>> => steps[1] = "LocateArtifact"
    /\ generated # NoPlist =>
          /\ Ran("LocateArtifact") /\ Ran("EnsureMetadata")
          /\ env["pkginfo_file"] # SuppliedPkginfoPath
          /\ env["package_file"] \in DOMAIN disk
    /\ Len(queries) <= 1 /\ Len(uploads) <= 1 /\ Len(notifications) <= 1
    /\ queries # <<>> => Ran("ReadPkginfo")
    /\ uploads # <<>> => ExistsAnswer(FALSE)
    /\ notifications # <<>> => UploadType("success")

C10_Witness ==
    /\ Ended /\ GeneratorRan /\ Len(notifications) = 1
    /\ steps = <<"LocateArtifact", "EnsureMetadata", "make_pkg_info", "ReadPkginfo",
                 "CheckExistence", "Upload", "Report", "send_slack_notification">>

====
